---- MODULE Spec2Model ----
(***************************************************************************)
(* A model of src/api.py: the frame transport (Api._req / Api._recv over   *)
(* one blocking socket) and the record decoders that walk the returned     *)
(* buffer with a BinaryReader cursor.                                      *)
(*                                                                         *)
(* Spec       : the transport, one action per step of _req/_recv, with the *)
(*              server and the socket as the environment: the handshake    *)
(*              and the public queries on one connection.                  *)
(* SpecRecv   : the same actions for the first request of a connection.    *)
(* SpecRecvFair : SpecRecv with no enabled step put off forever.           *)
(* SpecDecode : the decoders, each applied to buffers returned by _recv.   *)
(* SpecPure   : the helper methods _get_datetime and _format_time, each     *)
(*              applied to inputs of its own.                              *)
(***************************************************************************)
EXTENDS Integers, Sequences, FiniteSets, TLC

(***************************************************************************)
(* Bounds of the model.                                                    *)
(***************************************************************************)
\* longest frame body the server sends
MaxBody == 3
\* body bytes are drawn from 0..MaxByte
MaxByte == 1
\* a short socket read returns at most MaxShort bytes (or all that was asked)
MaxShort == 1
\* public queries issued after the three handshake requests
MaxQueries == 0

\* most records the server puts in one payload
MaxBars == 2
\* a payload may lose up to MaxCut bytes at its end (and every fifth length)
MaxCut == 2

(***************************************************************************)
(* Program constants.                                                      *)
(***************************************************************************)
RSP_HEADER_LENGTH == 16
\* _hello issues three requests
HelloRequests == 3

VARIABLES
    pc,             \* where the client is: "idle", "recv_header", "recv_body", "dead"
    nreq,           \* requests sent so far through _req
    unsent,         \* bytes of the last request that send did not accept
    pending,        \* requests the server has not answered yet
    stream,         \* bytes sent by the server and not yet read by the client
    closed,         \* the server has closed the connection
    wire,           \* the frame the server sent last (environment state)
    recv,           \* what the header read returned (local of _recv)
    zipped_size,    \* local of _recv
    unzipped_size,  \* local of _recv
    data,           \* local of _recv: bytes accumulated by the body loop
    remained_size,  \* local of _recv
    got,            \* what the last socket recv of this _recv returned
    reads,          \* parity of the number of socket recvs of this _recv
    ret,            \* outcome of the last _req: a buffer or an exception
    call,           \* SpecDecode: the decoder called last and its inputs
    reader,         \* SpecDecode: the BinaryReader handed to the decoder
    out             \* SpecDecode: what the decoder returned or raised

tvars == <<pc, nreq, unsent, pending, stream, closed, wire, recv, zipped_size,
           unzipped_size, data, remained_size, got, reads, ret>>
dvars == <<call, reader, out>>
vars == <<pc, nreq, unsent, pending, stream, closed, wire, recv, zipped_size,
          unzipped_size, data, remained_size, got, reads, ret, call, reader,
          out>>

(***************************************************************************)
(* Helpers.                                                                *)
(***************************************************************************)
Min(a, b) == IF a < b THEN a ELSE b

Take(s, n) == SubSeq(s, 1, Min(n, Len(s)))

Drop(s, n) == SubSeq(s, Min(n, Len(s)) + 1, Len(s))

RECURSIVE Zeros(_)
Zeros(n) == IF n = 0 THEN <<>> ELSE <<0>> \o Zeros(n - 1)

\* all byte sequences of length n over 0..MaxByte
RECURSIVE BytesOfLen(_)
BytesOfLen(n) ==
    IF n = 0 THEN {<<>>}
    ELSE {<<b>> \o s : b \in 0..MaxByte, s \in BytesOfLen(n - 1)}

\* little-endian unsigned 16-bit
LE16(lo, hi) == lo + 256 * hi

U16Bytes(v) == <<v % 256, (v \div 256) % 256>>

(***************************************************************************)
(* The server's frames: a 16-byte header (three reserved 32-bit fields,    *)
(* zipped size, unzipped size) followed by the body.                       *)
(***************************************************************************)
FrameBytes(z, u, body) == Zeros(12) \o U16Bytes(z) \o U16Bytes(u) \o body

NoFrame == [z |-> 0, u |-> 0, body |-> <<>>, cut |-> 0, at |-> 0]

(***************************************************************************)
(* struct.unpack('<IIIHH', recv): defined on exactly 16 bytes.             *)
(***************************************************************************)
unpack_header_lenient(h) ==
    LET p == h \o Zeros(RSP_HEADER_LENGTH - Len(h))
    IN  [ok |-> TRUE, zipped_size |-> LE16(p[13], p[14]),
         unzipped_size |-> LE16(p[15], p[16])]

unpack_header(h) ==
    IF Len(h) = RSP_HEADER_LENGTH
    THEN [ok |-> TRUE, zipped_size |-> LE16(h[13], h[14]),
          unzipped_size |-> LE16(h[15], h[16])]
    ELSE [ok |-> FALSE, zipped_size |-> 0, unzipped_size |-> 0]

(***************************************************************************)
(* zlib.decompress.  The compressed format is abstracted to one stored     *)
(* block: a length byte n followed by n literal bytes.  A stream that ends *)
(* before its n literals fails (zlib.error); bytes after the block are     *)
(* ignored, as zlib.decompress ignores data after the end of the stream.   *)
(***************************************************************************)
zlib_decompress(d) ==
    IF d = <<>> \/ Len(d) < 1 + d[1]
    THEN [ok |-> FALSE, buf |-> <<>>]
    ELSE [ok |-> TRUE, buf |-> SubSeq(d, 2, 1 + d[1])]

(***************************************************************************)
(* socket.recv(n): between 1 and n of the bytes in flight; zero bytes once *)
(* the peer has closed and nothing is left; blocks otherwise.              *)
(***************************************************************************)
CanRecv == stream # <<>> \/ closed

RecvLens(n) ==
    IF stream = <<>> THEN {0}
    ELSE {k \in 1..Min(n, Len(stream)) : k <= MaxShort \/ k = Min(n, Len(stream))}

NoRet == [kind |-> "none", buf |-> <<>>, err |-> "none"]
Returned(b) == [kind |-> "ok", buf |-> b, err |-> "none"]
Raised(e) == [kind |-> "raise", buf |-> <<>>, err |-> e]

\* an exception in _hello leaves __init__, so no Api instance exists
AfterRaise == IF nreq <= HelloRequests THEN "dead" ELSE "idle"

(***************************************************************************)
(* BinaryReader: a cursor over the buffer returned by _recv.  A read       *)
(* yields [ok, v, pos]: the value and the cursor after it, or ok = FALSE   *)
(* when fewer bytes remain than the read needs (OutOfRangeError).          *)
(***************************************************************************)
Fail == [ok |-> FALSE, v |-> 0, pos |-> 0]

rd_read(buf, pos, n) ==
    IF pos + n <= Len(buf)
    THEN [ok |-> TRUE, v |-> SubSeq(buf, pos + 1, pos + n), pos |-> pos + n]
    ELSE Fail

\* the value of a read replaced by what the bytes unpack to
Unpacked(r, v) == IF r.ok THEN [r EXCEPT !.v = v] ELSE Fail

rd_u8(buf, pos) ==
    LET U(r) == IF r.ok THEN Unpacked(r, r.v[1]) ELSE Fail
    IN  U(rd_read(buf, pos, 1))

rd_u16(buf, pos) ==
    LET U(r) == IF r.ok THEN Unpacked(r, LE16(r.v[1], r.v[2])) ELSE Fail
    IN  U(rd_read(buf, pos, 2))

rd_i16(buf, pos) ==
    LET U(r) == IF r.ok /\ r.v >= 32768 THEN Unpacked(r, r.v - 65536) ELSE r
    IN  U(rd_u16(buf, pos))

\* an unsigned 32-bit value is kept as its two 16-bit halves
rd_u32(buf, pos) ==
    LET U(r) == IF r.ok
                THEN Unpacked(r, [lo |-> LE16(r.v[1], r.v[2]),
                                  hi |-> LE16(r.v[3], r.v[4])])
                ELSE Fail
    IN  U(rd_read(buf, pos, 4))

\* a 32-bit float is kept as its four bytes
rd_f32(buf, pos) == rd_read(buf, pos, 4)

\* fixed-length right-padded text: the bytes without the padding
RECURSIVE rstrip0(_)
rstrip0(b) ==
    IF b # <<>> /\ b[Len(b)] = 0 THEN rstrip0(SubSeq(b, 1, Len(b) - 1)) ELSE b

rd_rpad_str(buf, pos, n) ==
    LET U(r) == IF r.ok THEN Unpacked(r, rstrip0(r.v)) ELSE Fail
    IN  U(rd_read(buf, pos, n))

\* the variable-length integer: the first byte carries a continuation bit
\* (128), a sign bit (64) and 6 value bits; each further byte carries a
\* continuation bit and 7 value bits, least significant group first
RECURSIVE vint_more(_, _, _, _)
vint_more(buf, pos, acc, scale) ==
    IF pos + 1 > Len(buf) THEN Fail
    ELSE IF buf[pos + 1] >= 128
    THEN vint_more(buf, pos + 1, acc + (buf[pos + 1] % 128) * scale,
                   scale * 128)
    ELSE [ok |-> TRUE, v |-> acc + (buf[pos + 1] % 128) * scale,
          pos |-> pos + 1]

vint_signed(first, r) ==
    IF r.ok /\ (first \div 64) % 2 = 1 THEN Unpacked(r, 0 - r.v) ELSE r

rd_vint(buf, pos) ==
    IF pos + 1 > Len(buf) THEN Fail
    ELSE IF buf[pos + 1] >= 128
    THEN vint_signed(buf[pos + 1],
                     vint_more(buf, pos + 1, buf[pos + 1] % 64, 64))
    ELSE vint_signed(buf[pos + 1],
                     [ok |-> TRUE, v |-> buf[pos + 1] % 64, pos |-> pos + 1])

(***************************************************************************)
(* The server's side of the codec, used to build payloads.                 *)
(***************************************************************************)
RECURSIVE EncGroups(_)
EncGroups(m) ==
    IF m < 128 THEN <<m>> ELSE <<128 + (m % 128)>> \o EncGroups(m \div 128)

EncMagnitude(s, m) ==
    IF m < 64 THEN <<s + m>>
    ELSE <<128 + s + (m % 64)>> \o EncGroups(m \div 64)

EncVint(v) == IF v < 0 THEN EncMagnitude(64, 0 - v) ELSE EncMagnitude(0, v)

EncU32(hi, lo) == U16Bytes(lo) \o U16Bytes(hi)

\* one read of the reader, by the name of the property or method used
ReadOne(buf, pos, t) ==
    CASE t = "u8" -> rd_u8(buf, pos)
      [] t = "u16" -> rd_u16(buf, pos)
      [] t = "i16" -> rd_i16(buf, pos)
      [] t = "u32" -> rd_u32(buf, pos)
      [] t = "f32" -> rd_f32(buf, pos)
      [] t = "vint" -> rd_vint(buf, pos)
      [] t = "read4" -> rd_read(buf, pos, 4)
      [] t = "read6" -> rd_read(buf, pos, 6)
      [] t = "read8" -> rd_read(buf, pos, 8)
      [] t = "read9" -> rd_read(buf, pos, 9)
      [] t = "rpad64" -> rd_rpad_str(buf, pos, 64)
      [] t = "rpad80" -> rd_rpad_str(buf, pos, 80)

\* the reads of fmt, in order; the first that fails ends them
RECURSIVE ReadFields(_, _, _, _)
ReadFields(buf, pos, fmt, acc) ==
    IF fmt = <<>> THEN [ok |-> TRUE, v |-> acc, pos |-> pos]
    ELSE LET More(r) ==
                 IF r.ok
                 THEN ReadFields(buf, r.pos, Tail(fmt), Append(acc, r.v))
                 ELSE Fail
         IN  More(ReadOne(buf, pos, Head(fmt)))

(***************************************************************************)
(* datetime.datetime(year, month, day, hour, minute): ValueError unless    *)
(* the fields name a date of the proleptic Gregorian calendar and a time.  *)
(***************************************************************************)
IsLeap(y) == (y % 4 = 0 /\ y % 100 # 0) \/ y % 400 = 0

DaysInMonth(y, m) ==
    IF m = 2 THEN (IF IsLeap(y) THEN 29 ELSE 28)
    ELSE IF m \in {4, 6, 9, 11} THEN 30 ELSE 31

ValidDateTime(y, m, d, hh, mm) ==
    /\ y >= 1 /\ y <= 9999
    /\ m >= 1 /\ m <= 12
    /\ d >= 1 /\ d <= DaysInMonth(y, m)
    /\ hh >= 0 /\ hh <= 23
    /\ mm >= 0 /\ mm <= 59

\* only the categories below KDaily taken as sub-daily
SubDaily_below_daily(category) == category < 4

\* KLineCategory values K5..K60 (below KDaily), PerMinute and K1
SubDaily(category) == category < 4 \/ category \in {7, 8}

MkDate(y, m, d, hh, mm, pos) ==
    IF ValidDateTime(y, m, d, hh, mm)
    THEN [st |-> "ok", pos |-> pos,
          v |-> [year |-> y, month |-> m, day |-> d, hour |-> hh,
                 minute |-> mm]]
    ELSE [st |-> "ValueError", pos |-> pos, v |-> <<>>]

NoDate(st, pos) == [st |-> st, pos |-> pos, v |-> <<>>]

\* lines 360-366: zipday and tminutes
sub_daily_date(zipday, tminutes, pos) ==
    MkDate((zipday \div 2048) + 2004,
           (zipday % 2048) \div 100,
           (zipday % 2048) % 100,
           tminutes \div 60,
           tminutes % 60,
           pos)

\* lines 368-372: zipday = hi * 65536 + lo, and 65536 = 6 * 10000 + 5536,
\* so with t = hi * 5536 + lo: zipday // 10000 = hi * 6 + t // 10000 and
\* zipday % 10000 = t % 10000
daily_date(hi, t, pos) ==
    MkDate(hi * 6 + (t \div 10000), (t % 10000) \div 100, (t % 10000) % 100,
           15, 0, pos)

\* Api._get_datetime
get_datetime(category, buf, pos) ==
    IF SubDaily(category)
    THEN LET D(r) == IF ~r.ok THEN NoDate("OutOfRange", pos)
                     ELSE sub_daily_date(r.v[1], r.v[2], r.pos)
         IN  D(ReadFields(buf, pos, <<"u16", "u16">>, <<>>))
    ELSE LET D(r) == IF ~r.ok THEN NoDate("OutOfRange", pos)
                     ELSE daily_date(r.v.hi, r.v.hi * 5536 + r.v.lo, r.pos)
         IN  D(rd_u32(buf, pos))

(***************************************************************************)
(* Prices are kept as the integer numerator of the quotient the code       *)
(* returns: thousandths for _calc_price1k, hundredths for _calc_price.     *)
(***************************************************************************)
calc_price(base_value, offset) == base_value + offset

calc_price1k(base_value, offset) == base_value + offset

(***************************************************************************)
(* Api.get_k_line.                                                         *)
(***************************************************************************)
BarFields(index) ==
    IF index THEN <<"vint", "vint", "vint", "vint", "f32", "f32", "u16", "u16">>
    ELSE <<"vint", "vint", "vint", "vint", "f32", "f32">>

\* the dict of a bar, with the two counts under the index layout
bar_dict(index, date, open, close, high, low, f) ==
    IF index
    THEN [date |-> date, open |-> open, close |-> close, high |-> high,
          low |-> low, vol |-> f[5], amount |-> f[6], up |-> f[7],
          down |-> f[8]]
    ELSE [date |-> date, open |-> open, close |-> close, high |-> high,
          low |-> low, vol |-> f[5], amount |-> f[6]]

\* close, high and low taken from the base carried to the next bar
kline_record_new_base(index, date, f, pre_diff_base) ==
    bar_dict(index, date,
             f[1] + pre_diff_base,
             ((f[1] + pre_diff_base) + f[2]) + f[2],
             ((f[1] + pre_diff_base) + f[2]) + f[3],
             ((f[1] + pre_diff_base) + f[2]) + f[4],
             f)

\* the record appended for one bar: lines 156-170 and 183-195, where
\* price_open_diff has become f[1] + pre_diff_base
kline_record(index, date, f, pre_diff_base) ==
    bar_dict(index, date,
             calc_price1k(f[1], pre_diff_base),
             calc_price1k(f[1] + pre_diff_base, f[2]),
             calc_price1k(f[1] + pre_diff_base, f[3]),
             calc_price1k(f[1] + pre_diff_base, f[4]),
             f)

\* the close delta left out of the base carried forward
next_diff_base_open_only(f, pre_diff_base) == f[1] + pre_diff_base

\* the value pre_diff_base takes after a bar: lines 157-159 and 184-186
next_diff_base(f, pre_diff_base) == (f[1] + pre_diff_base) + f[2]

Parsed(st, list, pos) == [st |-> st, list |-> list, pos |-> pos]

\* the loop over the bars under one layout: lines 150-170 and 177-195
RECURSIVE kline_loop(_, _, _, _, _, _, _)
kline_loop(category, index, buf, pos, n, pre_diff_base, klines) ==
    IF n = 0 THEN Parsed("ok", klines, pos)
    ELSE LET Rest(d, r) ==
                 IF ~r.ok THEN Parsed("OutOfRange", klines, d.pos)
                 ELSE kline_loop(category, index, buf, r.pos, n - 1,
                                 next_diff_base(r.v, pre_diff_base),
                                 Append(klines,
                                        kline_record(index, d.v, r.v,
                                                     pre_diff_base)))
             Bar(d) ==
                 IF d.st # "ok" THEN Parsed(d.st, klines, d.pos)
                 ELSE Rest(d, ReadFields(buf, d.pos, BarFields(index), <<>>))
         IN  Bar(get_datetime(category, buf, pos))

\* one attempt: the count, then the bars (lines 147-171 and 173-196)
kline_attempt(category, index, buf) ==
    LET Bars(c) == IF ~c.ok THEN Parsed("OutOfRange", <<>>, 0)
                   ELSE kline_loop(category, index, buf, c.pos, c.v, 0, <<>>)
    IN  Bars(rd_u16(buf, 0))

\* what a decoder hands back: the list, or the exception, and the cursor
Outcome(r, fallback) ==
    IF r.st = "ok"
    THEN [kind |-> "ok", list |-> r.list, err |-> "none", pos |-> r.pos,
          fallback |-> fallback]
    ELSE [kind |-> "raise", list |-> <<>>, err |-> r.st, pos |-> r.pos,
          fallback |-> fallback]

Joined(first, again) == Parsed(again.st, first.list \o again.list, again.pos)

\* the fallback going on with the bars of the index attempt kept
get_k_line_keeps_bars(category, buf) ==
    LET Retry(first) ==
            IF first.st = "ValueError"
            THEN Outcome(Joined(first, kline_attempt(category, FALSE, buf)),
                         TRUE)
            ELSE Outcome(first, FALSE)
    IN  Retry(kline_attempt(category, TRUE, buf))

\* lines 146-196: the index layout first; on ValueError the cursor goes back
\* to 0 and the payload is parsed again under the non-index layout
get_k_line(category, buf) ==
    LET Retry(first) ==
            IF first.st = "ValueError"
            THEN Outcome(kline_attempt(category, FALSE, buf), TRUE)
            ELSE Outcome(first, FALSE)
    IN  Retry(kline_attempt(category, TRUE, buf))

(***************************************************************************)
(* Api._format_time.  A string is a sequence of characters: a decimal      *)
(* digit is its value 0..9 and the minus sign is -1.                       *)
(***************************************************************************)
RECURSIVE DigitsOf(_)
DigitsOf(n) == IF n < 10 THEN <<n>> ELSE Append(DigitsOf(n \div 10), n % 10)

\* str(n) of an int
StrOf(n) == IF n < 0 THEN <<-1>> \o DigitsOf(0 - n) ELSE DigitsOf(n)

Max0(n) == IF n < 0 THEN 0 ELSE n

\* s[-a:-b] with a, b >= 0 counted from the end (b = 0 is the end)
SliceFromEnd(s, a, b) == SubSeq(s, Max0(Len(s) - a) + 1, Max0(Len(s) - b))

\* int(s) is defined on an optional sign followed by at least one digit
IntOk(s) == s # <<>> /\ s # <<-1>> /\ \A i \in 2..Len(s) : s[i] >= 0

RECURSIVE DigitsValue(_)
DigitsValue(d) ==
    IF d = <<>> THEN 0
    ELSE 10 * DigitsValue(SubSeq(d, 1, Len(d) - 1)) + d[Len(d)]

IntOf(s) == IF s[1] = -1 THEN 0 - DigitsValue(Tail(s)) ELSE DigitsValue(s)

\* s * n on a str or a tuple
RECURSIVE Repeat(_, _)
Repeat(s, n) == IF n = 0 THEN <<>> ELSE s \o Repeat(s, n - 1)

\* line 352: the minutes are the two characters, the seconds the int of the
\* last four characters repeated 60 times, over 10000
time_direct(s, mid) ==
    IF ~IntOk(SliceFromEnd(s, 4, 0)) THEN [st |-> "ValueError"]
    ELSE [st |-> "ok", head |-> SliceFromEnd(s, Len(s), 6),
          minutes |-> mid,
          sec_num |-> Repeat(SliceFromEnd(s, 4, 0), 60),
          sec_div |-> 10000]

\* line 354: minutes and seconds from the low six digits times 60
time_rederived(s, low6) ==
    [st |-> "ok", head |-> SliceFromEnd(s, Len(s), 6),
     minutes |-> DigitsOf((low6 * 60) \div 1000000),
     sec_num |-> DigitsOf(((low6 * 60) % 1000000) * 60),
     sec_div |-> 1000000]

time_of_str(s, mid) ==
    IF ~IntOk(mid) THEN [st |-> "ValueError"]
    ELSE IF IntOf(mid) < 60 THEN time_direct(s, mid)
    ELSE time_rederived(s, IntOf(SliceFromEnd(s, 6, 0)))

\* lines 348-355.  The seconds are kept as the decimal digits of the
\* numerator and the divisor of the quotient that is formatted.
format_time(timestamp) ==
    time_of_str(StrOf(timestamp), SliceFromEnd(StrOf(timestamp), 6, 4))

(***************************************************************************)
(* Api.get_stock_quotes.                                                   *)
(***************************************************************************)
\* the reads of one record after the timestamp: lines 98-132
QuoteTail ==
    <<"vint", "vint", "vint", "f32", "vint", "vint", "vint", "vint">>
    \o Repeat(<<"vint", "vint", "vint", "vint">>, 5)
    \o <<"u16", "vint", "vint", "vint", "vint", "i16", "u16">>

\* the dict of one record given its price fields
quote_dict(head, price, last_close, open, high, low, bid, ask, time, t) ==
    [market |-> head[1], code |-> SubSeq(head, 2, 7),
     active1 |-> LE16(head[8], head[9]),
     price |-> price, last_close |-> last_close, open |-> open,
     high |-> high, low |-> low,
     servertime |-> time,
     reserved_bytes1 |-> t[1], vol |-> t[2], cur_vol |-> t[3],
     amount |-> t[4], s_vol |-> t[5], b_vol |-> t[6],
     reserved_bytes2 |-> t[7], reserved_bytes3 |-> t[8],
     bid |-> bid, ask |-> ask,
     bid_vol |-> [k \in 1..5 |-> t[4 * k + 7]],
     ask_vol |-> [k \in 1..5 |-> t[4 * k + 8]],
     reserved_bytes4 |-> t[29],
     reserved_bytes5 |-> SubSeq(t, 30, 33),
     rate |-> t[34], active2 |-> t[35]]

\* every delta added to a base that the earlier deltas have moved
quote_record_running_base(head, price, d, time, t) ==
    quote_dict(head, price,
               price + d[1],
               price + d[1] + d[2],
               price + d[1] + d[2] + d[3],
               price + d[1] + d[2] + d[3] + d[4],
               [k \in 1..5 |-> price + d[1] + d[2] + d[3] + d[4] + t[4 * k + 5]],
               [k \in 1..5 |-> price + d[1] + d[2] + d[3] + d[4] + t[4 * k + 6]],
               time, t)

\* the dict of one record: lines 88-133.  head is the 9 bytes unpacked by
\* '<B6sH', d the four price deltas and the timestamp, t the reads of
\* QuoteTail.
quote_record(head, price, d, time, t) ==
    quote_dict(head,
               calc_price(price, 0),
               calc_price(price, d[1]),
               calc_price(price, d[2]),
               calc_price(price, d[3]),
               calc_price(price, d[4]),
               [k \in 1..5 |-> calc_price(price, t[4 * k + 5])],
               [k \in 1..5 |-> calc_price(price, t[4 * k + 6])],
               time, t)

NoRec(st, pos) == [st |-> st, rec |-> <<>>, pos |-> pos, state |-> 0]

Rec(rec, pos, state) == [st |-> "ok", rec |-> rec, pos |-> pos, state |-> state]

\* one pass of the loop at lines 85-133, in the order the code evaluates:
\* the 9 bytes and the price, Market(market), the four deltas and the
\* timestamp, _format_time, the rest
quote_step(buf, pos) ==
    LET Tail3(h, d, time, t) ==
            IF ~t.ok THEN NoRec("OutOfRange", d.pos)
            ELSE Rec(quote_record(h.v[1], h.v[2], d.v, time, t.v), t.pos, 0)
        Time(h, d, time) ==
            IF time.st # "ok" THEN NoRec("ValueError", d.pos)
            ELSE Tail3(h, d, time, ReadFields(buf, d.pos, QuoteTail, <<>>))
        Deltas(h, d) ==
            IF ~d.ok THEN NoRec("OutOfRange", h.pos)
            ELSE Time(h, d, format_time(d.v[5]))
        Head9(h) ==
            IF ~h.ok THEN NoRec("OutOfRange", pos)
            ELSE IF h.v[1][1] \notin {0, 1} THEN NoRec("ValueError", h.pos)
            ELSE Deltas(h, ReadFields(buf, h.pos,
                                      <<"vint", "vint", "vint", "vint", "vint">>,
                                      <<>>))
    IN  Head9(ReadFields(buf, pos, <<"read9", "vint">>, <<>>))

(***************************************************************************)
(* bytes.decode: a character is kept as its code.  A byte below 128 is one *)
(* character in both codecs; 'gbk' also takes a lead byte 129..254 with a  *)
(* trail byte 64..254 other than 127 as one character; anything else is a  *)
(* UnicodeDecodeError, which is a ValueError.  (Multi-byte UTF-8 does not  *)
(* occur in security codes and is taken as an error.)                      *)
(***************************************************************************)
decode_ok(b) == \A i \in 1..Len(b) : b[i] < 128

GbkPair(b) ==
    /\ b[1] >= 129 /\ b[1] <= 254
    /\ Len(b) >= 2
    /\ b[2] >= 64 /\ b[2] <= 254 /\ b[2] # 127

RECURSIVE decode_gbk_ok(_)
decode_gbk_ok(b) ==
    IF b = <<>> THEN TRUE
    ELSE IF b[1] < 128 THEN decode_gbk_ok(Tail(b))
    ELSE IF GbkPair(b) THEN decode_gbk_ok(SubSeq(b, 3, Len(b)))
    ELSE FALSE

\* the characters of a byte string decode_gbk_ok accepts
RECURSIVE decode_gbk(_)
decode_gbk(b) ==
    IF b = <<>> THEN <<>>
    ELSE IF b[1] < 128 THEN <<b[1]>> \o decode_gbk(Tail(b))
    ELSE <<b[1] * 256 + b[2]>> \o decode_gbk(SubSeq(b, 3, Len(b)))

(***************************************************************************)
(* The loops of the other list decoders.  A step is one pass of a loop: it *)
(* yields the record appended, the cursor and the running last_price.      *)
(***************************************************************************)
\* get_stocks_list, lines 60-68, in the order the code evaluates
stocks_step(buf, pos) ==
    LET Rest(c, n, r) ==
            IF ~r.ok THEN NoRec("OutOfRange", n.pos)
            ELSE Rec([code |-> c.v, volunit |-> n.v[1],
                      name |-> rstrip0(decode_gbk(n.v[2])),
                      reserved_bytes1 |-> r.v[1],
                      decimal_point |-> r.v[2],
                      pre_close |-> r.v[3],
                      reserved_bytes2 |-> r.v[4]], r.pos, 0)
        Name(c, n) ==
            IF ~n.ok THEN NoRec("OutOfRange", c.pos)
            ELSE IF ~decode_gbk_ok(n.v[2]) THEN NoRec("ValueError", n.pos)
            ELSE Rest(c, n, ReadFields(buf, n.pos,
                                       <<"read4", "u8", "f32", "read4">>,
                                       <<>>))
        Code(c) ==
            IF ~c.ok THEN NoRec("OutOfRange", pos)
            ELSE IF ~decode_ok(c.v) THEN NoRec("ValueError", c.pos)
            ELSE Name(c, ReadFields(buf, c.pos, <<"u16", "read8">>, <<>>))
    IN  Code(rd_read(buf, pos, 6))

\* get_minute_data and get_history_minute_data, lines 206-212 and 224-230
minute_step(buf, pos, last_price) ==
    LET Entry(r) ==
            IF ~r.ok THEN NoRec("OutOfRange", pos)
            ELSE Rec([price |-> last_price + r.v[1], vol |-> r.v[3]],
                     r.pos, last_price + r.v[1])
    IN  Entry(ReadFields(buf, pos, <<"vint", "vint", "vint">>, <<>>))

\* Api._get_time: datetime.time(hour, minute)
get_time(buf, pos) ==
    LET T(r) ==
            IF ~r.ok THEN NoDate("OutOfRange", pos)
            ELSE IF r.v \div 60 > 23 THEN NoDate("ValueError", r.pos)
            ELSE [st |-> "ok", pos |-> r.pos,
                  v |-> [hour |-> r.v \div 60, minute |-> r.v % 60]]
    IN  T(rd_u16(buf, pos))

TransFields(history) ==
    IF history THEN <<"vint", "vint", "vint", "vint">>
    ELSE <<"vint", "vint", "vint", "vint", "vint">>

\* get_transaction_data, lines 241-251 (history = FALSE), and
\* get_history_transaction_data, lines 264-273 (history = TRUE)
transaction_step(history, buf, pos, last_price) ==
    LET Rest(t, r) ==
            IF ~r.ok THEN NoRec("OutOfRange", t.pos)
            ELSE Rec([time |-> t.v, price |-> last_price + r.v[1],
                      vol |-> r.v[2], num |-> r.v[3], buyorsell |-> r.v[4]],
                     r.pos, last_price + r.v[1])
        Trade(t) ==
            IF t.st # "ok" THEN NoRec(t.st, t.pos)
            ELSE Rest(t, ReadFields(buf, t.pos, TransFields(history), <<>>))
    IN  Trade(get_time(buf, pos))

\* get_company_info_entry, lines 283-288
company_step(buf, pos) ==
    LET Entry(r) ==
            IF ~r.ok THEN NoRec("OutOfRange", pos)
            ELSE Rec([name |-> r.v[1], filename |-> r.v[2], start |-> r.v[3],
                      length |-> r.v[4]], r.pos, 0)
    IN  Entry(ReadFields(buf, pos, <<"rpad64", "rpad80", "u32", "u32">>, <<>>))

step(op, buf, pos, last_price) ==
    CASE op = "get_stocks_list" -> stocks_step(buf, pos)
      [] op = "get_stock_quotes" -> quote_step(buf, pos)
      [] op = "get_minute_data" -> minute_step(buf, pos, last_price)
      [] op = "get_history_minute_data" -> minute_step(buf, pos, last_price)
      [] op = "get_transaction_data" ->
           transaction_step(FALSE, buf, pos, last_price)
      [] op = "get_history_transaction_data" ->
           transaction_step(TRUE, buf, pos, last_price)
      [] op = "get_company_info_entry" -> company_step(buf, pos)

\* a pass that fails ends the loop and the list so far is handed back
RECURSIVE list_loop_partial(_, _, _, _, _, _)
list_loop_partial(op, buf, pos, n, last_price, acc) ==
    IF n = 0 THEN Parsed("ok", acc, pos)
    ELSE LET Pass(r) ==
                 IF r.st # "ok" THEN Parsed("ok", acc, pos)
                 ELSE list_loop_partial(op, buf, r.pos, n - 1, r.state,
                                        Append(acc, r.rec))
         IN  Pass(step(op, buf, pos, last_price))

\* every pass starting again from last_price = 0
RECURSIVE list_loop_price_reset(_, _, _, _, _, _)
list_loop_price_reset(op, buf, pos, n, last_price, acc) ==
    IF n = 0 THEN Parsed("ok", acc, pos)
    ELSE LET Pass(r) ==
                 IF r.st # "ok" THEN Parsed(r.st, acc, r.pos)
                 ELSE list_loop_price_reset(op, buf, r.pos, n - 1, 0,
                                            Append(acc, r.rec))
         IN  Pass(step(op, buf, pos, last_price))

\* for _ in range(count): ...append(...); an exception leaves the method
RECURSIVE list_loop(_, _, _, _, _, _)
list_loop(op, buf, pos, n, last_price, acc) ==
    IF n = 0 THEN Parsed("ok", acc, pos)
    ELSE LET Pass(r) ==
                 IF r.st # "ok" THEN Parsed(r.st, acc, r.pos)
                 ELSE list_loop(op, buf, r.pos, n - 1, r.state,
                                Append(acc, r.rec))
         IN  Pass(step(op, buf, pos, last_price))

\* where the count is read and where the first record starts: the count is
\* the first u16, except in get_stock_quotes (skip(2) first, line 81); the
\* minute series skip 2 or 4 bytes after it and the history transactions 4
CountAt(op) == IF op = "get_stock_quotes" THEN 2 ELSE 0

SkipAfterCount(op) ==
    CASE op = "get_minute_data" -> 2
      [] op \in {"get_history_minute_data",
                 "get_history_transaction_data"} -> 4
      [] OTHER -> 0

\* a list decoder after _req: the count, then the loop
decode_list(op, buf) ==
    LET Loop(c) ==
            IF ~c.ok
            THEN Outcome(Parsed("OutOfRange", <<>>, CountAt(op)), FALSE)
            ELSE Outcome(list_loop(op, buf, c.pos + SkipAfterCount(op), c.v,
                                   0, <<>>), FALSE)
    IN  Loop(rd_u16(buf, CountAt(op)))

(***************************************************************************)
(* The transport.                                                          *)
(***************************************************************************)
TInit ==
    /\ pc = "idle"
    /\ nreq = 0
    /\ unsent = 0
    /\ pending = 0
    /\ stream = <<>>
    /\ closed = FALSE
    /\ wire = NoFrame
    /\ recv = <<>>
    /\ zipped_size = 0
    /\ unzipped_size = 0
    /\ data = <<>>
    /\ remained_size = 0
    /\ got = <<>>
    /\ reads = 0
    /\ ret = NoRet

DIdle ==
    /\ call = [op |-> "none"]
    /\ reader = [buf |-> <<>>, pos |-> 0]
    /\ out = [kind |-> "none"]

DIdleNext ==
    /\ call' = [op |-> "none"]
    /\ reader' = [buf |-> <<>>, pos |-> 0]
    /\ out' = [kind |-> "none"]

\* the length of the n-th request of a connection: the three packages of
\* _hello (lines 42-47), then a query (get_stocks_list, line 55)
RequestLen(n) ==
    CASE n \in {1, 2} -> 13
      [] n = 3 -> 42
      [] OTHER -> 16

\* socket.send(data): the transport accepts between 1 and len(data) bytes
\* and returns how many
SendLens(n) == {k \in 1..n : k <= MaxShort \/ k = n}

\* _req, line 385: self._client.send(data), its result dropped, then _recv
\* is entered.  The server has a request to answer once it has all of it.
ReqStep ==
    /\ pc = "idle"
    /\ nreq' = nreq + 1
    /\ \E k \in SendLens(RequestLen(nreq + 1)) :
         /\ unsent' = RequestLen(nreq + 1) - k
         /\ pending' = IF k = RequestLen(nreq + 1) THEN pending + 1
                       ELSE pending
    /\ pc' = "recv_header"
    /\ ret' = NoRet
    \* the locals of the previous _recv are gone; no answer exists yet
    /\ wire' = NoFrame
    /\ recv' = <<>>
    /\ zipped_size' = 0
    /\ unzipped_size' = 0
    /\ data' = <<>>
    /\ remained_size' = 0
    /\ got' = <<>>
    /\ reads' = 0
    /\ UNCHANGED <<stream, closed>>
    /\ UNCHANGED dvars

\* the server answers one request with a frame; it may close the connection
\* after any prefix of the frame
Serve ==
    /\ pending > 0
    /\ ~closed
    /\ \E z \in 0..MaxBody, u \in 0..MaxBody :
         \E body \in BytesOfLen(z) :
           \E cut \in {0, 8} \cup (RSP_HEADER_LENGTH..(RSP_HEADER_LENGTH + z)) :
             /\ stream' = stream \o Take(FrameBytes(z, u, body), cut)
             /\ closed' = (cut < RSP_HEADER_LENGTH + z)
             /\ wire' = [z |-> z, u |-> u, body |-> body, cut |-> cut,
                         at |-> Len(stream)]
    /\ pending' = pending - 1
    /\ UNCHANGED <<pc, nreq, unsent, recv, zipped_size, unzipped_size, data,
                   remained_size, got, reads, ret>>
    /\ UNCHANGED dvars

\* _recv, lines 392-395
RecvHeader ==
    /\ pc = "recv_header"
    /\ CanRecv
    /\ \E k \in RecvLens(RSP_HEADER_LENGTH) :
         LET h == Take(stream, k)
             p == unpack_header(h)
         IN  /\ recv' = h
             /\ got' = h
             /\ reads' = 1 - reads
             /\ stream' = Drop(stream, k)
             /\ IF p.ok
                THEN /\ zipped_size' = p.zipped_size
                     /\ unzipped_size' = p.unzipped_size
                     /\ data' = <<>>
                     /\ remained_size' = p.zipped_size
                     /\ pc' = "recv_body"
                     /\ ret' = ret
                ELSE /\ ret' = Raised("struct_error")
                     /\ pc' = AfterRaise
                     /\ UNCHANGED <<zipped_size, unzipped_size, data,
                                    remained_size>>
    /\ UNCHANGED <<nreq, unsent, pending, closed, wire>>
    /\ UNCHANGED dvars

\* _recv, lines 396-398: one iteration of the body loop
RecvBody ==
    /\ pc = "recv_body"
    /\ remained_size > 0
    /\ CanRecv
    /\ \E k \in RecvLens(remained_size) :
         /\ got' = Take(stream, k)
         /\ stream' = Drop(stream, k)
         /\ data' = data \o Take(stream, k)
         /\ remained_size' = remained_size - Len(data')
         /\ reads' = 1 - reads
    /\ UNCHANGED <<pc, nreq, unsent, pending, closed, wire, recv,
                   zipped_size, unzipped_size, ret>>
    /\ UNCHANGED dvars

\* _recv, lines 399-401, and _req's return at line 386
Finish ==
    /\ pc = "recv_body"
    /\ remained_size <= 0
    /\ IF zipped_size # unzipped_size
       THEN LET r == zlib_decompress(data)
            IN  IF r.ok
                THEN /\ ret' = Returned(r.buf)
                     /\ pc' = "idle"
                ELSE /\ ret' = Raised("zlib_error")
                     /\ pc' = AfterRaise
       ELSE /\ ret' = Returned(data)
            /\ pc' = "idle"
    /\ UNCHANGED <<nreq, unsent, pending, stream, closed, wire, recv,
                   zipped_size, unzipped_size, data, remained_size, got,
                   reads>>
    /\ UNCHANGED dvars

\* the requests of one connection: _hello's three, then public queries
Req ==
    /\ nreq < HelloRequests + MaxQueries
    /\ ReqStep

\* the first request of a connection
FirstReq ==
    /\ nreq = 0
    /\ ReqStep

(***************************************************************************)
(* The decoders.  Each action is one public method: _req hands it a fresh  *)
(* reader over the buffer _recv returned, and the method decodes it.  The  *)
(* buffer is a payload the server encoded, possibly cut short.             *)
(***************************************************************************)
\* all sequences over S of length at most n
RECURSIVE SeqsUpTo(_, _)
SeqsUpTo(S, n) ==
    IF n = 0 THEN {<<>>}
    ELSE SeqsUpTo(S, n - 1) \cup
         {Append(q, x) : q \in {t \in SeqsUpTo(S, n - 1) : Len(t) = n - 1},
                         x \in S}

RECURSIVE Concat(_)
Concat(ss) == IF ss = <<>> THEN <<>> ELSE Head(ss) \o Concat(Tail(ss))

\* the buffers a payload can arrive as: whole, or with bytes missing at the end
Cuts(full) ==
    {k \in 0..Len(full) : k <= MaxCut \/ k % 5 = 0}

CutOff(full, k) == SubSeq(full, 1, Len(full) - k)

\* K5, KDaily, K1, KYear
Categories == {0, 4, 8, 11}

\* the bars the server sends: a date (2015-02-29 is no calendar date), the
\* four deltas, and for an index the advancing and declining counts
BarSamples ==
    [date : {[y |-> 2014, m |-> 3, d |-> 5], [y |-> 2015, m |-> 2, d |-> 29]},
     o : {100, -3}, c : {20, -70}, h : {30}, l : {-5},
     up : {7}, down : {9}]

EncDate(category, date) ==
    IF SubDaily(category)
    THEN U16Bytes((date.y - 2004) * 2048 + date.m * 100 + date.d)
         \o U16Bytes(570)
    ELSE EncU32((date.y * 10000 + date.m * 100 + date.d) \div 65536,
                (date.y * 10000 + date.m * 100 + date.d) % 65536)

EncBar(category, index, b) ==
    EncDate(category, b.date) \o EncVint(b.o) \o EncVint(b.c) \o EncVint(b.h)
    \o EncVint(b.l) \o <<0, 0, 32, 65>> \o <<0, 0, 72, 66>>
    \o (IF index THEN U16Bytes(b.up) \o U16Bytes(b.down) ELSE <<>>)

KLinePayload(category, index, bars) ==
    U16Bytes(Len(bars))
    \o Concat([i \in 1..Len(bars) |-> EncBar(category, index, bars[i])])

\* the records the server sends to the other list decoders
StockSamples ==
    [name : {<<198, 189, 176, 178, 210, 248, 208, 208>>,
             <<80, 65, 0, 0, 0, 0, 0, 0>>,
             <<255, 65, 0, 0, 0, 0, 0, 0>>}]

EncStock(x) ==
    <<48, 48, 48, 48, 48, 49>> \o U16Bytes(100) \o x.name \o Zeros(4)
    \o <<2>> \o <<0, 0, 32, 65>> \o Zeros(4)

\* market 2 is no Market; timestamp 5 has too few digits for _format_time
QuoteSamples == [market : {1, 2}, price : {10050, 7}, time : {14535084, 5}]

\* the deltas of previous close, open, high and low
QuoteDeltas == <<-50, 25, 60, -80>>

BidDelta(k) == 0 - k
AskDelta(k) == k

EncQuote(q) ==
    <<q.market>> \o <<48, 48, 48, 48, 48, 49>> \o U16Bytes(1)
    \o EncVint(q.price)
    \o Concat([i \in 1..4 |-> EncVint(QuoteDeltas[i])])
    \o EncVint(q.time)
    \o EncVint(0) \o EncVint(1000) \o EncVint(10) \o <<0, 0, 72, 66>>
    \o EncVint(400) \o EncVint(600) \o EncVint(0) \o EncVint(0)
    \o Concat([k \in 1..5 |-> EncVint(BidDelta(k)) \o EncVint(AskDelta(k))
                              \o EncVint(100 + k) \o EncVint(200 + k)])
    \o U16Bytes(0) \o EncVint(0) \o EncVint(0) \o EncVint(0) \o EncVint(0)
    \o U16Bytes(65536 - 150) \o U16Bytes(1)

MinuteSamples == [price : {1000, -3}, vol : {50, 0}]

EncMinute(x) == EncVint(x.price) \o EncVint(0) \o EncVint(x.vol)

\* minute 1440 of the day is hour 24, which datetime.time rejects
TransSamples == [tminutes : {570, 1440}, price : {1000, -3}]

EncTrans(history, x) ==
    U16Bytes(x.tminutes) \o EncVint(x.price) \o EncVint(5) \o EncVint(1)
    \o EncVint(0) \o (IF history THEN <<>> ELSE EncVint(0))

CompanySamples == [name : {<<65, 66>>, <<67>>}]

EncCompany(x) ==
    x.name \o Zeros(64 - Len(x.name)) \o <<70, 46, 116>> \o Zeros(77)
    \o EncU32(0, 100) \o EncU32(1, 2000)

EncRecord(op, x) ==
    CASE op = "get_stocks_list" -> EncStock(x)
      [] op = "get_stock_quotes" -> EncQuote(x)
      [] op \in {"get_minute_data", "get_history_minute_data"} -> EncMinute(x)
      [] op = "get_transaction_data" -> EncTrans(FALSE, x)
      [] op = "get_history_transaction_data" -> EncTrans(TRUE, x)
      [] op = "get_company_info_entry" -> EncCompany(x)

ListPayload(op, sent) ==
    Zeros(CountAt(op)) \o U16Bytes(Len(sent)) \o Zeros(SkipAfterCount(op))
    \o Concat([i \in 1..Len(sent) |-> EncRecord(op, sent[i])])

\* no call is under way: the caller holds no outcome
Idle == call.op = "none"

\* the caller has taken the outcome of the call
Done ==
    /\ ~Idle
    /\ DIdleNext
    /\ UNCHANGED tvars

\* the method ends: the reader is left where decoding stopped
Decoded(buf, r) ==
    /\ reader' = [buf |-> buf, pos |-> r.pos]
    /\ out' = r

GetKLine ==
    /\ Idle
    /\ \E category \in Categories, index \in BOOLEAN,
          bars \in SeqsUpTo(BarSamples, MaxBars) :
         \E cut \in Cuts(KLinePayload(category, index, bars)) :
           /\ call' = [op |-> "get_k_line", category |-> category,
                       index |-> index, sent |-> bars, cut |-> cut]
           /\ Decoded(CutOff(KLinePayload(category, index, bars), cut),
                      get_k_line(category,
                                 CutOff(KLinePayload(category, index, bars),
                                        cut)))
    /\ UNCHANGED tvars

\* a list decoder called on a payload of records drawn from samples
DecodeCall(op, samples) ==
    /\ \E sent \in SeqsUpTo(samples, MaxBars) :
         \E cut \in Cuts(ListPayload(op, sent)) :
           /\ call' = [op |-> op, sent |-> sent, cut |-> cut]
           /\ Decoded(CutOff(ListPayload(op, sent), cut),
                      decode_list(op, CutOff(ListPayload(op, sent), cut)))
    /\ UNCHANGED tvars

GetStocksList ==
    /\ Idle
    /\ DecodeCall("get_stocks_list", StockSamples)

GetStockQuotes ==
    /\ Idle
    /\ DecodeCall("get_stock_quotes", QuoteSamples)

GetMinuteData ==
    /\ Idle
    /\ DecodeCall("get_minute_data", MinuteSamples)

GetHistoryMinuteData ==
    /\ Idle
    /\ DecodeCall("get_history_minute_data", MinuteSamples)

GetTransactionData ==
    /\ Idle
    /\ DecodeCall("get_transaction_data", TransSamples)

GetHistoryTransactionData ==
    /\ Idle
    /\ DecodeCall("get_history_transaction_data", TransSamples)

GetCompanyInfoEntry ==
    /\ Idle
    /\ DecodeCall("get_company_info_entry", CompanySamples)

DecodeNext ==
    \/ GetStocksList
    \/ GetStockQuotes
    \/ GetKLine
    \/ GetMinuteData
    \/ GetHistoryMinuteData
    \/ GetTransactionData
    \/ GetHistoryTransactionData
    \/ GetCompanyInfoEntry
    \/ Done

(***************************************************************************)
(* The helper methods called on their own: _get_datetime on a reader over  *)
(* two 16-bit words, the last byte possibly missing.                       *)
(***************************************************************************)
\* every KLineCategory value, lines 19-30
AllCategories == 0..11

\* 20785 = 10 * 2048 + 305, 22757 = 11 * 2048 + 229, 1440 = 24 * 60, and
\* 20140305 = 307 * 65536 + 20753
DateWords == {0, 305, 307, 570, 1440, 20753, 20785, 22757, 65535}

\* the method ends: the datetime or the exception, and the cursor
DateCall(category, buf, d) ==
    /\ call' = [op |-> "_get_datetime", category |-> category]
    /\ reader' = [buf |-> buf, pos |-> d.pos]
    /\ out' = [kind |-> IF d.st = "ok" THEN "ok" ELSE "raise",
               err |-> IF d.st = "ok" THEN "none" ELSE d.st,
               v |-> d.v]

GetDatetime ==
    /\ Idle
    /\ \E category \in AllCategories, w1 \in DateWords, w2 \in DateWords,
          cut \in 0..1 :
         DateCall(category,
                  CutOff(U16Bytes(w1) \o U16Bytes(w2), cut),
                  get_datetime(category,
                               CutOff(U16Bytes(w1) \o U16Bytes(w2), cut), 0))
    /\ UNCHANGED tvars

\* the timestamps handed to _format_time: hhmmssss values with the minute
\* digits below and above 60, and two values of fewer than six digits
TimeSamples ==
    {h * 1000000 + m * 10000 + x :
        h \in {0, 9, 14}, m \in {0, 30, 59, 60, 99}, x \in {0, 1, 5084, 9999}}
    \cup {5, 12345}

\* the method ends: the string, in its parts, or the exception
TimeCall(timestamp, t) ==
    /\ call' = [op |-> "_format_time", timestamp |-> timestamp]
    /\ reader' = [buf |-> <<>>, pos |-> 0]
    /\ out' = [kind |-> IF t.st = "ok" THEN "ok" ELSE "raise",
               err |-> IF t.st = "ok" THEN "none" ELSE t.st,
               v |-> t]

FormatTime ==
    /\ Idle
    /\ \E timestamp \in TimeSamples :
         TimeCall(timestamp, format_time(timestamp))
    /\ UNCHANGED tvars

PureNext ==
    \/ GetDatetime
    \/ FormatTime
    \/ Done

TNext == Req \/ Serve \/ RecvHeader \/ RecvBody \/ Finish

RecvNext == FirstReq \/ Serve \/ RecvHeader \/ RecvBody \/ Finish

Init == TInit /\ DIdle

Next == TNext

Spec == Init /\ [][Next]_vars

SpecRecv == Init /\ [][RecvNext]_vars

\* the client's thread keeps running and the server goes on to answer or
\* to close: no step that can be taken is put off forever
SpecRecvFair ==
    /\ SpecRecv
    /\ WF_vars(Serve)
    /\ WF_vars(RecvHeader)
    /\ WF_vars(RecvBody)
    /\ WF_vars(Finish)

SpecDecode == Init /\ [][DecodeNext]_vars

SpecPure == Init /\ [][PureNext]_vars

(***************************************************************************)
(* Claims about the transport.                                             *)
(***************************************************************************)
HeaderParsed == Len(recv) = RSP_HEADER_LENGTH

LoopDone == pc = "recv_body" /\ remained_size <= 0

WholeFrameSent == wire.cut = RSP_HEADER_LENGTH + wire.z

\* C1: short-read resilience.  When the server delivered the whole frame,
\* however the socket split it into partial reads, the body loop of _recv
\* ends only with exactly zipped_size bytes accumulated, and they are the
\* frame body in order.
C1_ShortReadReassembly ==
    (LoopDone /\ WholeFrameSent) =>
        (Len(data) = zipped_size /\ data = wire.body)

\* C2: truncated frame.  Once a read of the body loop has returned zero
\* bytes with fewer than zipped_size bytes accumulated (the stream closed),
\* the call has ended in an error: it neither goes on nor returns a buffer.
C2_TruncatedFrameRaises ==
    (HeaderParsed /\ got = <<>> /\ Len(data) < zipped_size) =>
        ret.kind = "raise"

\* C3: compressed frames.  When zipped_size differs from unzipped_size and
\* the whole body was accumulated, a buffer is returned only if the
\* inflated length equals unzipped_size.
C3_InflatedLengthChecked ==
    (ret.kind = "ok" /\ zipped_size # unzipped_size
        /\ WholeFrameSent /\ data = wire.body) =>
        Len(ret.buf) = unzipped_size

\* C4: request/response ordering.  When a request has just been sent, every
\* byte of the earlier response frames has been consumed: nothing the
\* server sent before is still unread in the stream.
C4_RequestAtFrameBoundary ==
    (pc = "recv_header" /\ pending > 0) => stream = <<>>

\* C10: header framing.  The sizes are parsed only from a complete 16-byte
\* header; a header read that returned fewer bytes ends the call in the
\* header-unpack error, with no body read attempted.
C10_HeaderFraming ==
    /\ pc = "recv_body" =>
          /\ HeaderParsed
          /\ zipped_size = LE16(recv[13], recv[14])
          /\ unzipped_size = LE16(recv[15], recv[16])
    /\ (nreq > 0 /\ pc # "recv_header" /\ ~HeaderParsed) =>
          /\ ret = Raised("struct_error")
          /\ got = recv
          /\ data = <<>>
          /\ remained_size = 0

\* the stream closed inside the header and the call failed
C10_Witness ==
    /\ closed
    /\ nreq > 0
    /\ pc = "dead"
    /\ Len(recv) < RSP_HEADER_LENGTH
    /\ ret = Raised("struct_error")


(***************************************************************************)
(* Claims about get_k_line.                                                *)
(***************************************************************************)
PlainKeys == {"date", "open", "close", "high", "low", "vol", "amount"}

\* the call returned, and it decoded the whole payload under the layout the
\* server encoded it in
KLineAligned ==
    /\ call.op = "get_k_line"
    /\ out.kind = "ok"
    /\ call.cut = 0
    /\ out.fallback = ~call.index

\* the sum of the open and close deltas of the bars before bar i
RECURSIVE ChainBase(_, _)
ChainBase(bars, i) ==
    IF i = 1 THEN 0
    ELSE ChainBase(bars, i - 1) + bars[i - 1].o + bars[i - 1].c

\* C5: index-layout fallback.  When the index-layout attempt raised a date
\* ValueError and get_k_line returned, the list holds one non-index record
\* per bar of the count field and nothing of the first attempt, and on a
\* whole non-index payload the cursor ends at the end of the last bar with
\* the server's bars decoded from offset 0.
C5_IndexFallback ==
    (call.op = "get_k_line" /\ out.fallback /\ out.kind = "ok") =>
        /\ Len(out.list) = LE16(reader.buf[1], reader.buf[2])
        /\ \A i \in 1..Len(out.list) : DOMAIN out.list[i] = PlainKeys
        /\ reader.pos <= Len(reader.buf)
        /\ (~call.index /\ call.cut = 0) =>
              /\ reader.pos = Len(reader.buf)
              /\ Len(out.list) = Len(call.sent)
              /\ \A i \in 1..Len(out.list) :
                    /\ out.list[i].date.year = call.sent[i].date.y
                    /\ out.list[i].date.month = call.sent[i].date.m
                    /\ out.list[i].date.day = call.sent[i].date.d

\* a two-bar non-index payload: the index attempt failed at the second bar
C5_Witness ==
    /\ call.op = "get_k_line"
    /\ ~call.index
    /\ call.cut = 0
    /\ out.fallback
    /\ out.kind = "ok"
    /\ Len(out.list) = 2
    /\ reader.pos = Len(reader.buf)

\* C6: K-line chaining.  The open of bar i is (base + open delta)/1000 with
\* base 0 for the first bar and, for a later bar, the sum of the open and
\* close deltas of all earlier bars.
C6_KLineChaining ==
    KLineAligned =>
        /\ Len(out.list) = Len(call.sent)
        /\ \A i \in 1..Len(out.list) :
              out.list[i].open = ChainBase(call.sent, i) + call.sent[i].o

\* open delta 100 and close delta 20 on bar 1: base 120 for bar 2
C6_Witness ==
    /\ KLineAligned
    /\ Len(out.list) = 2
    /\ call.sent[1].o = 100
    /\ call.sent[1].c = 20
    /\ out.list[2].open = 120 + call.sent[2].o

\* C7 as stated: close, high and low of a bar are each (new_base + own
\* delta)/1000 with new_base = previous base + open delta + close delta.
C7_CloseHighLowFromNewBase ==
    KLineAligned =>
        \A i \in 1..Len(out.list) :
            LET new_base == ChainBase(call.sent, i) + call.sent[i].o
                            + call.sent[i].c
            IN  /\ out.list[i].close = new_base + call.sent[i].c
                /\ out.list[i].high = new_base + call.sent[i].h
                /\ out.list[i].low = new_base + call.sent[i].l

\* C7 amended: close, high and low of a bar are each (open_base + own
\* delta)/1000 with open_base = previous base + open delta, the numerator
\* of the bar's open; so close = new_base/1000.
C7_CloseHighLowFromOpen ==
    KLineAligned =>
        \A i \in 1..Len(out.list) :
            LET open_base == ChainBase(call.sent, i) + call.sent[i].o
            IN  /\ out.list[i].close = open_base + call.sent[i].c
                /\ out.list[i].high = open_base + call.sent[i].h
                /\ out.list[i].low = open_base + call.sent[i].l
                /\ out.list[i].close = ChainBase(call.sent, i + 1)

\* a second bar whose close delta is not zero
C7_Witness ==
    /\ KLineAligned
    /\ Len(out.list) = 2
    /\ call.sent[2].c = -70
    /\ out.list[2].high = out.list[2].open + 30

(***************************************************************************)
(* Claims about get_stock_quotes.                                          *)
(***************************************************************************)
\* the call returned the records of a whole payload
QuotesReturned ==
    /\ call.op = "get_stock_quotes"
    /\ out.kind = "ok"
    /\ call.cut = 0

\* C8: quote price deltas share one fixed base.  In every record returned
\* the current price is PriceBase/100 and previous close, open, high, low
\* and the five bid and five ask prices are each (PriceBase + own delta)/100,
\* PriceBase being the vint the server sent at the start of the record.
C8_QuoteFixedBase ==
    QuotesReturned =>
        /\ Len(out.list) = Len(call.sent)
        /\ \A i \in 1..Len(out.list) :
              /\ out.list[i].price = call.sent[i].price
              /\ out.list[i].last_close = call.sent[i].price + QuoteDeltas[1]
              /\ out.list[i].open = call.sent[i].price + QuoteDeltas[2]
              /\ out.list[i].high = call.sent[i].price + QuoteDeltas[3]
              /\ out.list[i].low = call.sent[i].price + QuoteDeltas[4]
              /\ \A k \in 1..5 :
                    /\ out.list[i].bid[k] = call.sent[i].price + BidDelta(k)
                    /\ out.list[i].ask[k] = call.sent[i].price + AskDelta(k)

\* PriceBase 10050 and previous-close delta -50: 100.50 and 100.00
C8_Witness ==
    /\ QuotesReturned
    /\ Len(out.list) = 2
    /\ call.sent[2].price = 10050
    /\ out.list[2].price = 10050
    /\ out.list[2].last_close = 10000
    /\ out.list[2].ask[5] = 10055

(***************************************************************************)
(* Claims about every list-returning decoder.                              *)
(***************************************************************************)
\* the keys of a complete record of each decoder
RecordKeys(op) ==
    CASE op = "get_stocks_list" ->
           {{"code", "volunit", "name", "reserved_bytes1", "decimal_point",
             "pre_close", "reserved_bytes2"}}
      [] op = "get_stock_quotes" ->
           {{"market", "code", "active1", "price", "last_close", "open",
             "high", "low", "servertime", "reserved_bytes1", "vol", "cur_vol",
             "amount", "s_vol", "b_vol", "reserved_bytes2", "reserved_bytes3",
             "bid", "ask", "bid_vol", "ask_vol", "reserved_bytes4",
             "reserved_bytes5", "rate", "active2"}}
      [] op = "get_k_line" -> {PlainKeys, PlainKeys \cup {"up", "down"}}
      [] op \in {"get_minute_data", "get_history_minute_data"} ->
           {{"price", "vol"}}
      [] op \in {"get_transaction_data", "get_history_transaction_data"} ->
           {{"time", "price", "vol", "num", "buyorsell"}}
      [] op = "get_company_info_entry" ->
           {{"name", "filename", "start", "length"}}

\* the count field of the payload the reader holds
CountField ==
    LE16(reader.buf[CountAt(call.op) + 1], reader.buf[CountAt(call.op) + 2])

\* C9: no partial results.  A call of a list decoder either returns a list
\* with as many records as the count field of the payload says, each with
\* every field of its kind, or raises and returns nothing.
C9_NoPartialResults ==
    ~Idle =>
        /\ out.kind \in {"ok", "raise"}
        /\ out.kind = "ok" =>
              /\ Len(out.list) = CountField
              /\ \A i \in 1..Len(out.list) :
                    DOMAIN out.list[i] \in RecordKeys(call.op)
        /\ out.kind = "raise" => out.list = <<>>

\* a payload of two securities that runs out inside the second record: the
\* first record was decoded, and the call raises
C9_Witness ==
    /\ call.op = "get_stocks_list"
    /\ Len(call.sent) = 2
    /\ call.cut > 0
    /\ call.cut < 29
    /\ reader.pos > 2 + 29
    /\ out.kind = "raise"
    /\ out.err = "OutOfRange"
    /\ out.list = <<>>

(***************************************************************************)
(* Further claims about the transport.                                     *)
(***************************************************************************)
\* C11: pass-through round trip.  When the header of a wholly delivered
\* frame has zipped_size = unzipped_size, the buffer _recv returns is the
\* body of the frame: the same bytes in the same order and number.
C11_PassThroughRoundTrip ==
    (ret.kind = "ok" /\ HeaderParsed /\ WholeFrameSent
        /\ zipped_size = unzipped_size) =>
        ret.buf = wire.body

(***************************************************************************)
(* Claims about the helper methods.                                        *)
(***************************************************************************)
\* the i-th 16-bit word of the buffer the reader holds
DateWord(i) == LE16(reader.buf[2 * i - 1], reader.buf[2 * i])

\* K5, K15, K30, K60, PerMinute and K1
SubDailyCategories == {0, 1, 2, 3, 7, 8}

\* C12: date decode.  For K5, K15, K30, K60, PerMinute and K1 the datetime
\* returned has year = (zipday div 2048) + 2004, month = (zipday mod 2048)
\* div 100, day = (zipday mod 2048) mod 100, hour = minutes div 60 and
\* minute = minutes mod 60 of the two 16-bit words read; for every other
\* category it is the YYYYMMDD of the one 32-bit value read, at 15:00.
C12_DateDecode ==
    (call.op = "_get_datetime" /\ out.kind = "ok") =>
        /\ reader.pos = 4
        /\ IF call.category \in SubDailyCategories
           THEN /\ out.v.year = (DateWord(1) \div 2048) + 2004
                /\ out.v.month = (DateWord(1) % 2048) \div 100
                /\ out.v.day = (DateWord(1) % 2048) % 100
                /\ out.v.hour = DateWord(2) \div 60
                /\ out.v.minute = DateWord(2) % 60
           ELSE /\ out.v.year = (DateWord(1) + 65536 * DateWord(2)) \div 10000
                /\ out.v.month =
                      ((DateWord(1) + 65536 * DateWord(2)) % 10000) \div 100
                /\ out.v.day = (DateWord(1) + 65536 * DateWord(2)) % 100
                /\ out.v.hour = 15
                /\ out.v.minute = 0

\* high bits 10 with low value 305, for PerMinute: 2014-03-05
C12_Witness ==
    /\ call.op = "_get_datetime"
    /\ call.category = 7
    /\ DateWord(1) = 10 * 2048 + 305
    /\ out.kind = "ok"
    /\ out.v.year = 2014
    /\ out.v.month = 3
    /\ out.v.day = 5

(***************************************************************************)
(* Further claims about get_k_line.                                        *)
(***************************************************************************)
\* the server sent a whole non-index payload of at least one bar, every
\* bar with a date of the calendar
WellFormedPlain ==
    /\ call.op = "get_k_line"
    /\ ~call.index
    /\ call.cut = 0
    /\ Len(call.sent) >= 1
    /\ \A i \in 1..Len(call.sent) :
          ValidDateTime(call.sent[i].date.y, call.sent[i].date.m,
                        call.sent[i].date.d, 15, 0)

\* C13: ordinary-instrument payloads always decode.  On a well-formed
\* non-index payload get_k_line returns, with one non-index record per bar
\* of the count field carrying the bar's date and open price.
C13_PlainPayloadDecodes ==
    WellFormedPlain =>
        /\ out.kind = "ok"
        /\ Len(out.list) = Len(call.sent)
        /\ \A i \in 1..Len(out.list) :
              /\ DOMAIN out.list[i] = PlainKeys
              /\ out.list[i].date.year = call.sent[i].date.y
              /\ out.list[i].date.month = call.sent[i].date.m
              /\ out.list[i].date.day = call.sent[i].date.d
              /\ out.list[i].open = ChainBase(call.sent, i) + call.sent[i].o

(***************************************************************************)
(* Claims about the minute and transaction series.                         *)
(***************************************************************************)
SeriesOps ==
    {"get_minute_data", "get_history_minute_data", "get_transaction_data",
     "get_history_transaction_data"}

\* the sum of the price deltas of the first i entries the server sent
RECURSIVE PriceSum(_, _)
PriceSum(sent, i) ==
    IF i = 0 THEN 0 ELSE PriceSum(sent, i - 1) + sent[i].price

\* C14: running last price.  In every list a series decoder returns, the
\* price of the i-th record is (the sum of the first i price deltas of the
\* payload)/100, the sum starting at 0 in each call.
C14_RunningLastPrice ==
    (call.op \in SeriesOps /\ out.kind = "ok") =>
        /\ Len(out.list) = Len(call.sent)
        /\ \A i \in 1..Len(out.list) :
              out.list[i].price = PriceSum(call.sent, i)

\* deltas 1000 and -3 in a transaction series: 10.00, then 9.97
C14_Witness ==
    /\ call.op = "get_transaction_data"
    /\ out.kind = "ok"
    /\ Len(out.list) = 2
    /\ call.sent[1].price = 1000
    /\ call.sent[2].price = -3
    /\ out.list[1].price = 1000
    /\ out.list[2].price = 997

\* a digit string without its leading zeros
StripZeros(d) ==
    IF \A i \in 1..Len(d) : d[i] = 0 THEN <<>>
    ELSE SubSeq(d,
                CHOOSE i \in 1..Len(d) :
                    d[i] # 0 /\ \A j \in 1..(i - 1) : d[j] = 0,
                Len(d))

\* the seconds formatted, numerator / divisor, lie in [0, 60)
SecondsInRange(t) ==
    /\ Len(StripZeros(t.sec_num)) <= 9
    /\ DigitsValue(StripZeros(t.sec_num)) < 60 * t.sec_div

\* the minute digits at positions -6..-4 and the last four digits
MinuteDigits(timestamp) == (timestamp \div 10000) % 100
LastFour(timestamp) == timestamp % 10000

\* C15: quote timestamp formatting.  For a timestamp of at least six
\* digits _format_time returns with minutes in 0..59 and seconds in
\* [0, 60); when the minute digits are below 60 the minutes are those
\* digits and the seconds are (last four digits * 60)/10000.
C15_FormatTimeInRange ==
    (call.op = "_format_time" /\ call.timestamp >= 100000) =>
        /\ out.kind = "ok"
        /\ DigitsValue(out.v.minutes) \in 0..59
        /\ SecondsInRange(out.v)
        /\ MinuteDigits(call.timestamp) < 60 =>
              /\ DigitsValue(out.v.minutes) = MinuteDigits(call.timestamp)
              /\ out.v.sec_div = 10000
              /\ DigitsValue(StripZeros(out.v.sec_num))
                    = LastFour(call.timestamp) * 60

(***************************************************************************)
(* Claims about the progress of the transport.                             *)
(***************************************************************************)
\* C16: _recv terminates.  With reads that deliver bytes or report closure
\* by delivering none, the body loop of _recv once entered is left after
\* finitely many reads, by returning or by failing.
C16_RecvTerminates == (pc = "recv_body") ~> (pc # "recv_body")

\* C17: whole request sent before waiting.  While _recv runs, every byte
\* of the request has been handed to the transport: the client never waits
\* for the response to a request it has only partly sent.
C17_WholeRequestSent ==
    pc \in {"recv_header", "recv_body"} => unsent = 0

====
